---- MODULE Spec2Model ----
(***************************************************************************)
(* Model of trainer/glove.py: the GloVe-style matrix-factorisation         *)
(* model_fn (forward pass, weighted loss, optimizer step, top-k cosine     *)
(* similarity) and the two vocabulary lookup tables it builds.             *)
(*                                                                         *)
(* Numbers are integers.  A loss is a fraction [num, den]; a cosine        *)
(* similarity is a pair [n, d] standing for n / sqrt(d), compared exactly. *)
(* Ids are 0-based as in the program; mapping[i + 1] is the token of id i. *)
(***************************************************************************)
EXTENDS Integers, Sequences, FiniteSets

VARIABLES
    mapping,            \* params["mappings"][...]: the vocabulary list
    k,                  \* params["k"]
    global_bias,        \* tf variable "global_bias"
    row_embeddings,     \* tf variable "<row>_embeddings"   [field_dim, embedding_size]
    row_biases,         \* tf variable "<row>_biases"       [field_dim]
    column_embeddings,  \* tf variable "<column>_embeddings"
    column_biases,      \* tf variable "<column>_biases"
    global_step,        \* tf.train.get_global_step()
    features,           \* the batch the input function yields
    mode,               \* mode of the last model_fn invocation
    outcome,            \* how the last invocation ended
    row_id,             \* row_id_variables: field_id of the last invocation
    column_id,          \* column_id_variables: field_id of the last invocation
    predicted_value,    \* tensor predicted_value of the last invocation
    loss,               \* EstimatorSpec.loss of the last invocation
    train_op,           \* whether the EstimatorSpec carried a train_op
    predictions         \* EstimatorSpec.predictions of the last invocation

vars == <<mapping, k, global_bias, row_embeddings, row_biases, column_embeddings,
          column_biases, global_step, features, mode, outcome, row_id, column_id,
          predicted_value, loss, train_op, predictions>>

parameters == <<global_bias, row_embeddings, row_biases, column_embeddings,
                column_biases>>

----------------------------------------------------------------------------
(* Bounds of the model *)

MaxVocab == 2
EmbeddingSize == 1
MaxBatch == 2
MaxSteps == 1

TokenNames == <<"a", "b", "c", "d", "e", "f">>
Tokens == {TokenNames[i] : i \in 1..MaxVocab}
OOV == "zz"                      \* a token of no vocabulary
EmbedVals == {-1, 0, 1}
BiasVals == {0, 1}
Weights == {0, 1, 2}
Values == {0, 1}

----------------------------------------------------------------------------
(* Arithmetic helpers *)

RECURSIVE SumTo(_, _)
SumTo(f, n) == IF n = 0 THEN 0 ELSE f[n] + SumTo(f, n - 1)

Sign(x) == IF x > 0 THEN 1 ELSE IF x < 0 THEN -1 ELSE 0

\* tf.reduce_sum(tf.multiply(u, v), 1) for one row
Dot(u, v) == SumTo([d \in DOMAIN u |-> u[d] * v[d]], Len(u))

RECURSIVE SeqsUpTo(_, _)
SeqsUpTo(S, n) ==
    IF n = 0 THEN {<<>>}
    ELSE LET shorter == SeqsUpTo(S, n - 1)
         IN  shorter \cup {Append(s, x) : s \in {t \in shorter : Len(t) = n - 1}, x \in S}

----------------------------------------------------------------------------
(* Vocabulary tables *)

\* (variant) the table's own default, -1, left in place
missing_default_value == 0 - 1

default_value == 0

field_dim(m) == Len(m)

Ids(m) == 0..(Len(m) - 1)

\* (variant) an initializer that keeps the first id of a repeated token
IdTableInitKeepsFirst(m) == TRUE

\* The initializer of the string->id hash table inserts mapping[i] -> i for
\* every i and fails (FailedPrecondition) on a key met again with another value.
IdTableInit(m) == \A i, j \in 1..Len(m) : m[i] = m[j] => i = j

\* (variant) unknown tokens sent to the last id instead of the default
IdLookupUnknownLast(m, token) ==
    IF \E i \in 1..Len(m) : m[i] = token
    THEN (CHOOSE i \in 1..Len(m) :
              m[i] = token /\ \A j \in 1..(i - 1) : m[j] # token) - 1
    ELSE Len(m) - 1

\* index_table_from_tensor(mapping, default_value=0).lookup(token)
IdLookup(m, token) ==
    IF \E i \in 1..Len(m) : m[i] = token
    THEN (CHOOSE i \in 1..Len(m) :
              m[i] = token /\ \A j \in 1..(i - 1) : m[j] # token) - 1
    ELSE default_value

\* index_to_string_table_from_tensor(mapping).lookup(id)
StringLookup(m, id) == IF id \in Ids(m) THEN m[id + 1] ELSE "UNK"

\* tf.nn.embedding_lookup(table, ids): a gather, which fails on an id out of range
InRange(table, ids) == \A i \in DOMAIN ids : ids[i] \in DOMAIN table

embedding_lookup(table, ids) == [i \in DOMAIN ids |-> table[ids[i]]]

----------------------------------------------------------------------------
(* Forward pass *)

Column(feats, name) == [i \in DOMAIN feats |-> feats[i][name]]

\* get_field_variables: ids, looked-up embeddings and biases of one token space
get_field_variables(tokens, m, embeddings, biases) ==
    LET field_id == [i \in DOMAIN tokens |-> IdLookup(m, tokens[i])]
    IN  [id    |-> field_id,
         ok    |-> InRange(embeddings, field_id) /\ InRange(biases, field_id),
         embed |-> IF InRange(embeddings, field_id)
                   THEN embedding_lookup(embeddings, field_id) ELSE <<>>,
         bias  |-> IF InRange(biases, field_id)
                   THEN embedding_lookup(biases, field_id) ELSE <<>>]

\* embed_product = reduce_sum(multiply(row embed, column embed), 1)
embed_product(rowv, colv) == [i \in DOMAIN rowv.embed |-> Dot(rowv.embed[i], colv.embed[i])]

\* (variant) the row bias added twice, the column bias never
PredictedValueRowBiasTwice(gb, rowv, colv) ==
    [i \in DOMAIN rowv.embed |->
        gb + (rowv.bias[i] + rowv.bias[i] + embed_product(rowv, colv)[i])]

\* predicted_value = global_bias + add_n([row bias, column bias, embed_product])
PredictedValue(gb, rowv, colv) ==
    [i \in DOMAIN rowv.embed |->
        gb + (rowv.bias[i] + colv.bias[i] + embed_product(rowv, colv)[i])]

----------------------------------------------------------------------------
(* Loss: tf.losses.mean_squared_error(labels, predictions, weights) with its  *)
(* default reduction, SUM_BY_NONZERO_WEIGHTS                                 *)

SquaredDifference(pred, labels) ==
    [i \in DOMAIN pred |-> (pred[i] - labels[i]) * (pred[i] - labels[i])]

WeightedSum(losses, weights) ==
    SumTo([i \in DOMAIN losses |-> losses[i] * weights[i]], Len(losses))

\* (variant) the batch size as the denominator
NumElements(weights) == Len(weights)

\* the number of elements whose weight is not zero
NumPresent(weights) == Cardinality({i \in DOMAIN weights : weights[i] # 0})

\* (variant) the division left unguarded
UnsafeMean(total, num_present) == [num |-> total, den |-> num_present]

\* total / num_present, and 0 when num_present is 0
SafeMean(total, num_present) ==
    IF num_present = 0 THEN [num |-> 0, den |-> 1]
    ELSE [num |-> total, den |-> num_present]

mean_squared_error(labels, pred, weights) ==
    SafeMean(WeightedSum(SquaredDifference(pred, labels), weights), NumPresent(weights))

NoLoss == [num |-> 0, den |-> 0]

----------------------------------------------------------------------------
(* Training step: optimizer.minimize(loss, global_step)                      *)

\* d loss / d predicted_value[i], up to the positive factor 2 / num_present
ErrGrad(feats, pred) ==
    [i \in DOMAIN feats |-> feats[i].weight * (pred[i] - feats[i].value)]

\* the gradient of a gathered table: the rows of the ids looked up, summed per id
GatherGrad(ids, contrib, j) ==
    SumTo([i \in DOMAIN ids |-> IF ids[i] = j THEN contrib[i] ELSE 0], Len(ids))

\* one optimizer step on one scalar: a unit step against the gradient's sign
ApplyOptimizer(param, grad) == param - Sign(grad)

TrainedGlobalBias(gb, g) == ApplyOptimizer(gb, SumTo(g, Len(g)))

TrainedBiases(biases, ids, g) ==
    [j \in DOMAIN biases |-> ApplyOptimizer(biases[j], GatherGrad(ids, g, j))]

TrainedEmbeddings(embeddings, ids, g, other) ==
    [j \in DOMAIN embeddings |->
        [d \in DOMAIN embeddings[j] |->
            ApplyOptimizer(embeddings[j][d],
                           GatherGrad(ids, [i \in DOMAIN ids |-> g[i] * other[i][d]], j))]]

----------------------------------------------------------------------------
(* Similarity: get_similarity                                               *)

\* tf.math.l2_normalize(x, 1) of one row: x / sqrt(max(sum(x^2), epsilon)).
\* The row is kept with its squared length; a zero row has squared length 0,
\* below epsilon, and normalises to the zero row whatever epsilon is (here 1).
l2_normalize(x) == [v |-> x, ss |-> IF Dot(x, x) = 0 THEN 1 ELSE Dot(x, x)]

\* one entry of matmul(embed_norm, embeddings_norm, transpose_b=True):
\* n / sqrt(d)
CosineSim(qn, rn) == [n |-> Dot(qn.v, rn.v), d |-> qn.ss * rn.ss]

\* s.n / sqrt(s.d) < t.n / sqrt(t.d), with d > 0 on both sides
ScoreLess(s, t) ==
    IF s.n < 0 /\ t.n >= 0 THEN TRUE
    ELSE IF s.n >= 0 /\ t.n <= 0 THEN FALSE
    ELSE IF s.n >= 0 THEN s.n * s.n * t.d < t.n * t.n * s.d
    ELSE s.n * s.n * t.d > t.n * t.n * s.d

ScoreEq(s, t) == ~ScoreLess(s, t) /\ ~ScoreLess(t, s)

\* (variant) of two equal scores the higher index first
BeforeHigherIndexFirst(scores, j, l) ==
    \/ ScoreLess(scores[l], scores[j])
    \/ ScoreEq(scores[l], scores[j]) /\ j > l

\* (variant) smaller score first
BeforeSmallerFirst(scores, j, l) ==
    \/ ScoreLess(scores[j], scores[l])
    \/ ScoreEq(scores[l], scores[j]) /\ j < l

\* tf.math.top_k order: larger score first; of two equal scores the lower
\* index first
Before(scores, j, l) ==
    \/ ScoreLess(scores[l], scores[j])
    \/ ScoreEq(scores[l], scores[j]) /\ j < l

RECURSIVE TopKFrom(_, _, _)
TopKFrom(scores, S, n) ==
    IF n = 0 \/ S = {} THEN <<>>
    ELSE LET best == CHOOSE j \in S : \A l \in S \ {j} : Before(scores, j, l)
         IN  <<best>> \o TopKFrom(scores, S \ {best}, n - 1)

\* tf.math.top_k(row of similarities, k): the indices
top_k(scores, kk) == TopKFrom(scores, DOMAIN scores, kk)

\* top_k needs 0 <= k <= the number of columns
TopKValid(m, kk) == kk >= 0 /\ kk <= field_dim(m)

\* one query row of get_similarity: its row of the similarity matrix, the
\* top k of it and their tokens
SimilarityRow(q, embeddings, m, kk) ==
    LET embed_norm == l2_normalize(q)
        cosine_sim == [j \in DOMAIN embeddings |->
                          CosineSim(embed_norm, l2_normalize(embeddings[j]))]
        top_k_idx == top_k(cosine_sim, kk)
    IN  [embed_norm   |-> embed_norm,
         top_k_idx    |-> top_k_idx,
         top_k_sim    |-> [n \in DOMAIN top_k_idx |-> cosine_sim[top_k_idx[n]]],
         top_k_string |-> [n \in DOMAIN top_k_idx |-> StringLookup(m, top_k_idx[n])]]

RECURSIVE SimilarityRows(_, _, _, _, _)
SimilarityRows(embed, n, embeddings, m, kk) ==
    IF n = 0 THEN <<>>
    ELSE Append(SimilarityRows(embed, n - 1, embeddings, m, kk),
                SimilarityRow(embed[n], embeddings, m, kk))

\* every query row of the batch, in batch order
get_similarity(fv, embeddings, m, kk) ==
    SimilarityRows(fv.embed, Len(fv.embed), embeddings, m, kk)

----------------------------------------------------------------------------
(* model_fn                                                                  *)

Modes == {"TRAIN", "EVAL", "PREDICT"}

NoPredictions == [row_embed |-> <<>>]

\* (variant) the EVAL return missing, the train_op built in EVAL mode too
TrainOpExposedInEval(m) == m # "PREDICT"

\* the train_op is built after the PREDICT and the EVAL returns
TrainOpExposed(m) == m = "TRAIN"

RowVariables(feats) ==
    get_field_variables(Column(feats, "row_id"), mapping, row_embeddings, row_biases)

ColumnVariables(feats) ==
    get_field_variables(Column(feats, "column_id"), mapping, column_embeddings,
                        column_biases)

Predictions(rowv, colv) ==
    LET rsim == get_similarity(rowv, row_embeddings, mapping, k)
        csim == get_similarity(colv, column_embeddings, mapping, k)
        batch == DOMAIN rowv.embed
    IN  [row_embed               |-> rowv.embed,
         row_bias                |-> rowv.bias,
         column_embed            |-> colv.embed,
         column_bias             |-> colv.bias,
         embed_norm_product      |-> [i \in batch |->
                                         CosineSim(l2_normalize(rowv.embed[i]),
                                                   l2_normalize(colv.embed[i]))],
         top_k_row_similarity    |-> [i \in batch |-> rsim[i].top_k_sim],
         top_k_row_idx           |-> [i \in batch |-> rsim[i].top_k_idx],
         top_k_row_string        |-> [i \in batch |-> rsim[i].top_k_string],
         top_k_column_similarity |-> [i \in batch |-> csim[i].top_k_sim],
         top_k_column_idx        |-> [i \in batch |-> csim[i].top_k_idx],
         top_k_column_string     |-> [i \in batch |-> csim[i].top_k_string]]

\* How an invocation in mode m ends: the graph is built (top_k checks k against
\* the static vocabulary size), the tables are initialised, the step is run.
Outcome(m) ==
    IF m = "PREDICT" /\ ~TopKValid(mapping, k) THEN "ValueError"
    ELSE IF ~IdTableInit(mapping) THEN "FailedPrecondition"
    ELSE IF ~(RowVariables(features).ok /\ ColumnVariables(features).ok)
         THEN "InvalidArgument"
    ELSE "ok"

Failed(m) ==
    /\ mode' = m
    /\ outcome' = Outcome(m)
    /\ row_id' = <<>>
    /\ column_id' = <<>>
    /\ predicted_value' = <<>>
    /\ loss' = NoLoss
    /\ train_op' = FALSE
    /\ predictions' = NoPredictions
    /\ UNCHANGED <<parameters, global_step>>

Ran(m) ==
    \E rowv \in {RowVariables(features)}, colv \in {ColumnVariables(features)} :
    \E pv \in {PredictedValue(global_bias, rowv, colv)} :
    \E g \in {ErrGrad(features, pv)} :
        /\ mode' = m
        /\ outcome' = "ok"
        /\ row_id' = rowv.id
        /\ column_id' = colv.id
        /\ predicted_value' = pv
        /\ predictions' = IF m = "PREDICT" THEN Predictions(rowv, colv) ELSE NoPredictions
        /\ loss' = IF m = "PREDICT" THEN NoLoss
                   ELSE mean_squared_error(Column(features, "value"), pv,
                                           Column(features, "weight"))
        /\ train_op' = TrainOpExposed(m)
        /\ IF TrainOpExposed(m)
           THEN /\ global_bias' = TrainedGlobalBias(global_bias, g)
                /\ row_biases' = TrainedBiases(row_biases, rowv.id, g)
                /\ column_biases' = TrainedBiases(column_biases, colv.id, g)
                /\ row_embeddings' = TrainedEmbeddings(row_embeddings, rowv.id, g, colv.embed)
                /\ column_embeddings' =
                       TrainedEmbeddings(column_embeddings, colv.id, g, rowv.embed)
                /\ global_step' = global_step + 1
           ELSE UNCHANGED <<parameters, global_step>>

model_fn(m) ==
    /\ IF Outcome(m) = "ok" THEN Ran(m) ELSE Failed(m)
    /\ UNCHANGED <<mapping, k, features>>

Train == global_step < MaxSteps /\ model_fn("TRAIN")

Eval == model_fn("EVAL")

Predict == model_fn("PREDICT")

Next == Train \/ Eval \/ Predict

----------------------------------------------------------------------------
(* Initial states: the estimator is constructed, the variables hold their     *)
(* (random) initial values, nothing has been invoked                          *)

Vocabularies == SeqsUpTo(Tokens, MaxVocab) \ {<<>>}

\* the vocabulary of the first n token names, without repetition
Vocabulary(n) == [i \in 1..n |-> TokenNames[i]]

InputTokens == Tokens \cup {OOV}

Rows == [1..EmbeddingSize -> EmbedVals]

AllTables(m) == [Ids(m) -> Rows]

ConstTables(m) == {[j \in Ids(m) |-> [d \in 1..EmbeddingSize |-> c]] : c \in EmbedVals}

AllBiases(m) == [Ids(m) -> BiasVals]

Records(rows, cols, ws, vs) == [row_id : rows, column_id : cols, weight : ws, value : vs]

Batches(R, n) == SeqsUpTo(R, n) \ {<<>>}

NothingInvoked ==
    /\ global_step = 0
    /\ mode = "NONE"
    /\ outcome = "none"
    /\ row_id = <<>>
    /\ column_id = <<>>
    /\ predicted_value = <<>>
    /\ loss = NoLoss
    /\ train_op = FALSE
    /\ predictions = NoPredictions

\* The modes: any vocabulary list (repetitions included), any k, one record
\* per batch.
Init ==
    /\ mapping \in Vocabularies
    /\ k \in 0..(MaxVocab + 1)
    /\ global_bias \in BiasVals
    /\ row_embeddings = [j \in Ids(mapping) |-> [d \in 1..EmbeddingSize |-> 1]]
    /\ column_embeddings = [j \in Ids(mapping) |-> [d \in 1..EmbeddingSize |-> 1]]
    /\ row_biases = [j \in Ids(mapping) |-> 0]
    /\ column_biases = [j \in Ids(mapping) |-> 0]
    /\ features \in Batches(Records(InputTokens, InputTokens, {1}, Values), 1)
    /\ NothingInvoked

Spec == Init /\ [][Next]_vars

\* The forward pass: batches of up to MaxBatch pairs of vocabulary tokens.
InitFwd ==
    /\ mapping = Vocabulary(MaxVocab)
    /\ k = 1
    /\ global_bias \in BiasVals
    /\ row_embeddings \in ConstTables(mapping)
    /\ column_embeddings = [j \in Ids(mapping) |-> [d \in 1..EmbeddingSize |-> 1]]
    /\ row_biases \in AllBiases(mapping)
    /\ column_biases = [j \in Ids(mapping) |-> 0]
    /\ features \in Batches(Records(Tokens, Tokens, {1}, {0}), MaxBatch)
    /\ NothingInvoked

NextFwd == Train \/ Eval

SpecFwd == InitFwd /\ [][NextFwd]_vars

\* The loss: batches of up to MaxBatch records of any weight and value.
InitLoss ==
    /\ mapping = Vocabulary(MaxVocab)
    /\ k = 1
    /\ global_bias \in BiasVals
    /\ row_embeddings \in ConstTables(mapping)
    /\ column_embeddings \in ConstTables(mapping)
    /\ row_biases = [j \in Ids(mapping) |-> 0]
    /\ column_biases = [j \in Ids(mapping) |-> 0]
    /\ features \in Batches(Records({TokenNames[1]}, {TokenNames[1]}, Weights, Values),
                            MaxBatch)
    /\ NothingInvoked

NextLoss == Train \/ Eval

SpecLoss == InitLoss /\ [][NextLoss]_vars

\* The similarity: any row embedding table, any k, one query per batch.
InitSim ==
    /\ mapping \in {Vocabulary(n) : n \in 1..MaxVocab}
    /\ k \in 0..(MaxVocab + 1)
    /\ global_bias = 0
    /\ row_embeddings \in AllTables(mapping)
    /\ column_embeddings \in ConstTables(mapping)
    /\ row_biases = [j \in Ids(mapping) |-> 0]
    /\ column_biases = [j \in Ids(mapping) |-> 0]
    /\ features \in Batches(Records(InputTokens, {TokenNames[1]}, {1}, {0}), 1)
    /\ NothingInvoked

NextSim == Predict

SpecSim == InitSim /\ [][NextSim]_vars

----------------------------------------------------------------------------
(* Helpers of the properties below *)

Known(tok) == \E j \in Ids(mapping) : mapping[j + 1] = tok

\* the vocabulary id of a token: its index in the vocabulary, 0 when it has none
VocabId(tok) ==
    IF Known(tok) THEN CHOOSE j \in Ids(mapping) : mapping[j + 1] = tok ELSE 0

BatchIdx == 1..Len(features)

RanOk == mode \in Modes /\ outcome = "ok"

----------------------------------------------------------------------------
(* C1: whatever the mode, an invocation that runs yields one predicted value  *)
(* per input pair, in input order, and the i-th is global_bias +              *)
(* row_bias[row id] + col_bias[col id] + the dot product of the two           *)
(* embedding rows, taken on the parameters the invocation started from.       *)
C1_ForwardPass ==
    [][outcome' = "ok" =>
          /\ Len(predicted_value') = Len(features)
          /\ \A i \in BatchIdx :
                LET r == VocabId(features[i].row_id)
                    c == VocabId(features[i].column_id)
                IN  predicted_value'[i] =
                        global_bias + row_biases[r] + column_biases[c]
                        + SumTo([d \in 1..EmbeddingSize |->
                                    row_embeddings[r][d] * column_embeddings[c][d]],
                                EmbeddingSize)]_vars

\* a batch of two pairs with different row ids and different predicted values
C1_Witness ==
    /\ RanOk
    /\ Len(predicted_value) = 2
    /\ row_id[1] # row_id[2]
    /\ predicted_value[1] # predicted_value[2]
    /\ column_biases[column_id[1]] # row_biases[row_id[1]]

----------------------------------------------------------------------------
(* C2 *)

WeightedSquaredError ==
    SumTo([i \in BatchIdx |->
              features[i].weight * (predicted_value[i] - features[i].value)
                                 * (predicted_value[i] - features[i].value)],
          Len(features))

SumOfWeights == SumTo([i \in BatchIdx |-> features[i].weight], Len(features))

NonZeroWeights == Cardinality({i \in BatchIdx : features[i].weight # 0})

LossComputed == RanOk /\ mode \in {"EVAL", "TRAIN"}

\* C2 as stated: with a positive weight in the batch, the EVAL and TRAIN loss
\* is the weighted squared error divided by the sum of the weights.
C2_DividedBySumOfWeights ==
    (LossComputed /\ SumOfWeights > 0) =>
        /\ loss.den > 0
        /\ loss.num * SumOfWeights = WeightedSquaredError * loss.den

\* C2 amended: with a non-zero weight in the batch, the EVAL and TRAIN loss is
\* the weighted squared error divided by the number of records whose weight
\* is not zero.
C2_DividedByNonZeroWeights ==
    (LossComputed /\ NonZeroWeights > 0) =>
        /\ loss.den > 0
        /\ loss.num * NonZeroWeights = WeightedSquaredError * loss.den

\* a loss over a zero weight and a weight of 2, with an error on each record
C2_Witness ==
    /\ LossComputed
    /\ Len(features) = 2
    /\ features[1].weight = 0
    /\ features[2].weight = 2
    /\ predicted_value[1] # features[1].value
    /\ predicted_value[2] # features[2].value
    /\ loss.num > 0

----------------------------------------------------------------------------
(* C9: when every weight of the batch is zero, the EVAL and TRAIN loss is     *)
(* not a division by zero: it is the finite value 0, for every such batch.    *)
C9_AllZeroWeights ==
    (LossComputed /\ \A i \in BatchIdx : features[i].weight = 0) =>
        /\ loss.den > 0
        /\ loss.num = 0

\* an all-zero-weight batch whose predictions miss the observed values
C9_Witness ==
    /\ LossComputed
    /\ Len(features) = 2
    /\ \A i \in BatchIdx : features[i].weight = 0
    /\ \A i \in BatchIdx : predicted_value[i] # features[i].value

----------------------------------------------------------------------------
(* C3: an invocation in EVAL or PREDICT mode leaves the global bias, the      *)
(* embedding tables, the bias vectors and the global step as they were, and   *)
(* only an invocation in TRAIN mode carries a train_op.                       *)
C3_OnlyTrainWrites ==
    [][/\ mode' \in {"EVAL", "PREDICT"} =>
              /\ parameters' = parameters
              /\ global_step' = global_step
       /\ train_op' => mode' = "TRAIN"]_vars

\* an EVAL or PREDICT invocation that ran after a training step
C3_Witness ==
    /\ RanOk
    /\ mode \in {"EVAL", "PREDICT"}
    /\ global_step = 1
    /\ \E j \in Ids(mapping) : row_embeddings[j] # [d \in 1..EmbeddingSize |-> 1]

----------------------------------------------------------------------------
(* C4: with k outside 1..V nothing is ever invoked: the model is rejected     *)
(* with a ConfigError at construction, in every mode.                         *)
C4_InvalidKRejected ==
    (k < 1 \/ k > field_dim(mapping)) => (mode = "NONE" \/ outcome = "ConfigError")

----------------------------------------------------------------------------
(* C5 *)

\* the similarity of query row q to row j of a table
Similarity(q, table, j) == CosineSim(l2_normalize(q), l2_normalize(table[j]))

\* idx and sim list the k best of the table for query q: k distinct ids with
\* their scores, scores non-increasing, equal scores in ascending id order, and
\* no id left out ranks before a listed one
IsTopK(q, table, idx, sim) ==
    /\ Len(idx) = k
    /\ Len(sim) = k
    /\ \A n \in 1..k : idx[n] \in DOMAIN table /\ sim[n] = Similarity(q, table, idx[n])
    /\ \A n, n2 \in 1..k : n < n2 =>
          /\ idx[n] # idx[n2]
          /\ ~ScoreLess(sim[n], sim[n2])
          /\ ScoreEq(sim[n], sim[n2]) => idx[n] < idx[n2]
    /\ \A j \in DOMAIN table : (\A n \in 1..k : idx[n] # j) =>
          \A n \in 1..k :
              /\ ~ScoreLess(sim[n], Similarity(q, table, j))
              /\ ScoreEq(sim[n], Similarity(q, table, j)) => idx[n] < j

Predicted == RanOk /\ mode = "PREDICT"

\* C5: for every query row of a PREDICT invocation the result lists the k ids
\* of largest cosine similarity, scores non-increasing, equal scores in
\* ascending id order, and no id left out ties with a listed id above it.
C5_TopKOrder ==
    Predicted =>
        \A i \in BatchIdx :
            /\ IsTopK(row_embeddings[row_id[i]], row_embeddings,
                      predictions.top_k_row_idx[i], predictions.top_k_row_similarity[i])
            /\ IsTopK(column_embeddings[column_id[i]], column_embeddings,
                      predictions.top_k_column_idx[i],
                      predictions.top_k_column_similarity[i])
            /\ \A n \in 1..k :
                  /\ predictions.top_k_row_string[i][n] =
                         mapping[predictions.top_k_row_idx[i][n] + 1]
                  /\ predictions.top_k_column_string[i][n] =
                         mapping[predictions.top_k_column_idx[i][n] + 1]

\* a result that lists two ids of equal, non-zero score
C5_Witness ==
    /\ Predicted
    /\ k = 2
    /\ predictions.top_k_row_similarity[1][1].n # 0
    /\ ScoreEq(predictions.top_k_row_similarity[1][1],
               predictions.top_k_row_similarity[1][2])
    /\ predictions.top_k_row_idx[1] = <<0, 1>>

----------------------------------------------------------------------------
(* C6 *)

IsOne(s) == s.n > 0 /\ s.n * s.n = s.d

ZeroRow(x) == \A d \in DOMAIN x : x[d] = 0

\* u and v point the same way: their cosine similarity is 1
SameDirection(u, v) == IsOne(CosineSim(l2_normalize(u), l2_normalize(v)))

\* the first entry of query i's row result is the query's own token, score 1
OwnTokenFirst(i) ==
    /\ predictions.top_k_row_string[i][1] = features[i].row_id
    /\ IsOne(predictions.top_k_row_similarity[i][1])

----------------------------------------------------------------------------
(* C7: every token looked up gets an id in [0, V): its vocabulary index when  *)
(* it is in the vocabulary, 0 when it is not; an unknown token fails no       *)
(* invocation, and no embedding or bias lookup is out of range.               *)
C7_LookupInRange ==
    /\ RanOk =>
          \A i \in BatchIdx :
              /\ row_id[i] \in Ids(mapping)
              /\ column_id[i] \in Ids(mapping)
              /\ row_id[i] = VocabId(features[i].row_id)
              /\ column_id[i] = VocabId(features[i].column_id)
    /\ outcome # "InvalidArgument"
    /\ (mode \in Modes /\ IdTableInit(mapping)
        /\ (mode = "PREDICT" => TopKValid(mapping, k))) => outcome = "ok"

\* an invocation that ran on an unknown row token and a token of id above 0
C7_Witness ==
    /\ RanOk
    /\ ~Known(features[1].row_id)
    /\ row_id[1] = 0
    /\ column_id[1] > 0

----------------------------------------------------------------------------
(* C8: in every vocabulary the model runs with, mapping an id other than the  *)
(* default id to its token and the token back to an id returns the id; a      *)
(* vocabulary that repeats a token is not one the model runs with.            *)
C8_RoundTrip ==
    RanOk =>
        /\ \A i \in Ids(mapping) \ {default_value} :
               IdLookup(mapping, StringLookup(mapping, i)) = i
        /\ \A i, j \in Ids(mapping) : mapping[i + 1] = mapping[j + 1] => i = j

\* a PREDICT result that names a token of an id above 0
C8_Witness ==
    /\ Predicted
    /\ Len(mapping) = MaxVocab
    /\ k >= 1
    /\ \E n \in 1..k : predictions.top_k_row_idx[1][n] > 0

----------------------------------------------------------------------------
(* C10 *)

FirstToken == mapping[1]

\* the batch with every unknown token replaced by the vocabulary's first token
Canonical(feats) ==
    [i \in DOMAIN feats |->
        [feats[i] EXCEPT
            !.row_id = IF Known(@) THEN @ ELSE FirstToken,
            !.column_id = IF Known(@) THEN @ ELSE FirstToken]]

HasUnknown(feats) ==
    \E i \in DOMAIN feats : ~Known(feats[i].row_id) \/ ~Known(feats[i].column_id)

\* the ids the batch makes the row side (the column side) look up
RowIdsRead == {VocabId(features[i].row_id) : i \in BatchIdx}

ColumnIdsRead == {VocabId(features[i].column_id) : i \in BatchIdx}

\* C10: an invocation on a batch with unknown tokens yields what it yields on
\* the batch with the first vocabulary token in their place: the same ids,
\* predicted values, loss, predictions and, in TRAIN mode, the same updated
\* parameters; and the gradient of a TRAIN step is zero on every embedding row
\* and bias element other than those of the ids looked up, which is id 0 for
\* an unknown token.
C10_UnknownIsFirstToken ==
    [][(outcome' = "ok" /\ HasUnknown(features)) =>
          LET rowv == RowVariables(Canonical(features))
              colv == ColumnVariables(Canonical(features))
              pv   == PredictedValue(global_bias, rowv, colv)
              g    == ErrGrad(Canonical(features), pv)
          IN  /\ row_id' = rowv.id
              /\ column_id' = colv.id
              /\ predicted_value' = pv
              /\ mode' = "PREDICT" => predictions' = Predictions(rowv, colv)
              /\ mode' # "PREDICT" =>
                    loss' = mean_squared_error(Column(features, "value"), pv,
                                               Column(features, "weight"))
              /\ mode' = "TRAIN" =>
                    /\ global_bias' = TrainedGlobalBias(global_bias, g)
                    /\ row_biases' = TrainedBiases(row_biases, rowv.id, g)
                    /\ column_biases' = TrainedBiases(column_biases, colv.id, g)
                    /\ row_embeddings' =
                           TrainedEmbeddings(row_embeddings, rowv.id, g, colv.embed)
                    /\ column_embeddings' =
                           TrainedEmbeddings(column_embeddings, colv.id, g, rowv.embed)
                    /\ \A j \in Ids(mapping) \ RowIdsRead :
                           /\ GatherGrad(row_id', g, j) = 0
                           /\ \A d \in 1..EmbeddingSize :
                                  GatherGrad(row_id',
                                             [i \in BatchIdx |-> g[i] * colv.embed[i][d]],
                                             j) = 0
                    /\ \A j \in Ids(mapping) \ ColumnIdsRead :
                           /\ GatherGrad(column_id', g, j) = 0
                           /\ \A d \in 1..EmbeddingSize :
                                  GatherGrad(column_id',
                                             [i \in BatchIdx |-> g[i] * rowv.embed[i][d]],
                                             j) = 0]_vars

\* a training step on an unknown row token that moved row 0 of the row table
\* and left row 1 alone
C10_Witness ==
    /\ RanOk
    /\ mode = "TRAIN"
    /\ ~Known(features[1].row_id)
    /\ Len(mapping) > 1
    /\ row_id[1] = 0
    /\ row_embeddings[0] # row_embeddings[1]

====
